---- MODULE Spec2Model ----
(***************************************************************************)
(* Journal Cover AI: the session controller (App), the generation pipeline *)
(* (geminiService), and the cover editor (ResultDisplay: interaction mode, *)
(* focus, drag layout, PDF export) as one state machine.                   *)
(*                                                                         *)
(* React state is modelled by one variable per useState/useRef cell.  An   *)
(* async handler is cut at its awaits: the code between two awaits runs    *)
(* in one task of the event loop and React 18 batches its setState calls,  *)
(* so it is one action.  A backend call is a record "in flight": the       *)
(* backend answers it (an environment action), then the handler's          *)
(* continuation consumes the answer.                                       *)
(*                                                                         *)
(* The form's fields are state, changed by typing and by the resolvers;    *)
(* the model select and the refine box are drawn with the event that reads *)
(* them.  Spec runs the session, the mode, the focus and the export over   *)
(* every backend answer; SpecLayout runs the drag layout beside the        *)
(* session and the export; SpecInput runs the form and its two resolvers   *)
(* beside the session; SpecCover runs the cover's text and font sizes;     *)
(* SpecMerge runs the merge of the form's record into the cover's text.    *)
(* All but Spec drive the session by one answer of each kind.              *)
(***************************************************************************)
EXTENDS Integers, Sequences, FiniteSets, TLC

VARIABLES
    \* ---- App (src/unnamed/part_000) ----
    status,          \* GenerationStatus
    currentData,     \* ArticleData | null
    currentConfig,   \* GenerationConfig | null
    generatedImage,  \* string | null
    generatedPrompt, \* string | null
    errorMessage,    \* string | null
    genCall,         \* the pending activation of handleGenerate
    refineCall,      \* the pending activation of handleRefine
    \* ---- environment of geminiService ----
    apiKey,          \* whether process.env.API_KEY is configured
    aistudio,        \* window.aistudio: the host's key selector | undefined
    \* ---- InputSection ----
    activeTab,       \* 'text' | 'doi' | 'file'
    title,
    content,
    authors,
    journalName,
    doi,
    doiLoading,
    fileLoading,
    error,           \* inline input error | null
    doiCall,         \* the pending activation of handleDoiFetch
    fileCall,        \* the pending activation of handleFileUpload
    \* ---- ResultDisplay ----
    mode,            \* 'edit' | 'layout'
    isExporting,
    activeField,     \* string | null
    layout,          \* LayoutState
    draggingKey,     \* keyof LayoutState | null
    dragStartRef,    \* {mouseX, mouseY, startX, startY} | null
    exportCall,      \* the pending activation of handleDownloadPdf
    exportOutcome,   \* what the last export produced: none / saved / alert
    metadata,        \* the cover's text fields
    fontOffsets      \* Record<string, number>: the fields that have an offset

vars == <<status, currentData, currentConfig, generatedImage, generatedPrompt,
          errorMessage, genCall, refineCall, apiKey, aistudio, activeTab, title,
          content, authors, journalName, doi, doiLoading, fileLoading, error,
          doiCall, fileCall, mode, isExporting, activeField, layout,
          draggingKey, dragStartRef, exportCall, exportOutcome, metadata,
          fontOffsets>>

sessionVars == <<status, currentData, currentConfig, generatedImage,
                 generatedPrompt, errorMessage, genCall, refineCall>>
editorVars == <<mode, isExporting, activeField, exportCall, exportOutcome>>
dragVars == <<layout, draggingKey, dragStartRef>>
envVars == <<apiKey, aistudio>>
articleVars == <<title, content, authors, journalName, doi>>
resolverVars == <<doiLoading, fileLoading, doiCall, fileCall>>
inputVars == <<activeTab, articleVars, resolverVars>>
coverVars == <<metadata, fontOffsets>>

-----------------------------------------------------------------------------
(* Values *)

\* JavaScript null, for the string-typed cells
null == "null"
\* JavaScript null, for the object-typed cells
nullObj == [isNull |-> TRUE]

Statuses == {"idle", "analyzing", "generating", "refining", "completed", "error"}

FLASH_IMAGE == "gemini-2.5-flash-image"
PRO_IMAGE == "gemini-3-pro-image-preview"

ApiKeyMissingMessage == "API Key is missing. Please configure process.env.API_KEY."
FallbackDescription == "A scientific abstract representation."
NoImageMessage == "No image data found in response."
NoImageRefineMessage == "No image data found in refinement response."
DefaultGenerationError == "An unexpected error occurred during generation."
RefineErrorPrefix == "Failed to refine image. "
ValidationMessage == "Please provide a title and content/abstract."
DataUrlPrefix == "data:image/png;base64,"
\* the message of the TypeError thrown by reading .content of undefined
TypeErrorMessage == "Cannot read properties of undefined (reading 'content')"

LayoutKeys == {"header", "meta", "tag", "content"}

InitialLayout ==
    [k \in LayoutKeys |->
        CASE k = "header" -> [x |-> 5, y |-> 5]
          [] k = "meta" -> [x |-> 5, y |-> 13]
          [] k = "tag" -> [x |-> 70, y |-> 5]
          [] k = "content" -> [x |-> 5, y |-> 70]]

\* JavaScript's a || b on strings: the empty string is falsy
OrElse(a, b) == IF a = "" THEN b ELSE a

-----------------------------------------------------------------------------
(* Backend answers.  A call in flight holds Pending until the backend      *)
(* answers; Throw(m) is a rejected promise carrying an Error with          *)
(* message m.                                                              *)

Pending == [kind |-> "pending"]
Throw(m) == [kind |-> "throw", message |-> m]
Return(v) == [kind |-> "return", value |-> v]

\* a describe answer: response.text may be missing
TextResponse(t) == [kind |-> "ok", text |-> t]
NoTextResponse == [kind |-> "ok"]

\* an image answer: candidates[0].content.parts, each part text or inlineData
TextPart == [text |-> "caption"]
InlinePart(d) == [inlineData |-> [data |-> d]]
PartsResponse(parts) == [kind |-> "ok", candidates |-> <<[content |-> [parts |-> parts]]>>]
NoPartsResponse == [kind |-> "ok", candidates |-> <<[content |-> [role |-> "model"]]>>]
EmptyCandidatesResponse == [kind |-> "ok", candidates |-> <<>>]
NoCandidatesResponse == [kind |-> "ok"]

\* the base64 payloads an inline image part can carry
Payloads == {"AAAA", "BBBB"}

-----------------------------------------------------------------------------
(* geminiService.ts *)

\* getAiClient: throws when the key is missing, else yields a client
getAiClient == IF apiKey THEN Return("client") ELSE Throw(ApiKeyMissingMessage)

\* generateVisualDescription, after the backend answered resp
generateVisualDescription_NoFallback(resp) ==
    IF resp.kind = "throw" THEN resp
    ELSE IF "text" \in DOMAIN resp THEN Return(resp.text)
    ELSE Return("")

generateVisualDescription(resp) ==
    IF resp.kind = "throw" THEN resp
    ELSE IF "text" \in DOMAIN resp
         THEN Return(OrElse(resp.text, FallbackDescription))
         ELSE Return(FallbackDescription)

\* the scan "for (const part of parts) if (part.inlineData) return ..."
RECURSIVE FirstInline(_, _)
FirstInline(parts, i) ==
    IF i > Len(parts) THEN null
    ELSE IF "inlineData" \in DOMAIN parts[i]
         THEN DataUrlPrefix \o parts[i].inlineData.data
         ELSE FirstInline(parts, i + 1)

\* the tail shared by generateCoverImage and refineCoverImage
ExtractImage(resp, noImage) ==
    IF resp.kind = "throw" THEN resp
    ELSE IF "candidates" \notin DOMAIN resp THEN Throw(noImage)
    ELSE IF Len(resp.candidates) = 0 THEN Throw(TypeErrorMessage)
    ELSE IF "parts" \notin DOMAIN resp.candidates[1].content THEN Throw(noImage)
    ELSE LET url == FirstInline(resp.candidates[1].content.parts, 1)
         IN  IF url = null THEN Throw(noImage) ELSE Return(url)

generateCoverImage(resp) == ExtractImage(resp, NoImageMessage)

refineCoverImage(resp) == ExtractImage(resp, NoImageRefineMessage)

\* currentImageBase64.replace(/^data:image\/(png|jpeg|webp);base64,/, "")
StripDataUrl(url) ==
    IF \E d \in Payloads : url = DataUrlPrefix \o d
    THEN CHOOSE d \in Payloads : url = DataUrlPrefix \o d
    ELSE url

\* String.prototype.toUpperCase on the journal names of the model: a name
\* without lower-case letters is its own upper case
toUpperCase(s) ==
    CASE s = "Small" -> "SMALL"
      [] s = "Advanced Science" -> "ADVANCED SCIENCE"
      [] OTHER -> s

-----------------------------------------------------------------------------
(* geminiService.ts: the two resolvers *)

DoiFetchErrorMessage == "Could not fetch DOI data. Please enter text manually."
UntitledTitle == "Untitled"
NoAbstractMessage == "No abstract available via DOI. Please paste content manually."
PdfNoTextMessage == "Could not extract text from PDF"
JsonSyntaxErrorMessage == "Unexpected token in JSON"

\* the DOIs of the model, and the prefixes /^(https?:\/\/)?(dx\.)?doi\.org\// matches
BareDois == {"10.1002/advs.1"}
DoiPrefixes == {"doi.org/", "dx.doi.org/", "http://doi.org/", "https://doi.org/",
                "http://dx.doi.org/", "https://dx.doi.org/"}

\* what can follow a prefix in the strings of the model: an identifier,
\* nothing, or text that again starts like a resolver address
DoiTails == BareDois \cup {"", "doi.org/10.1002/advs.1"}

\* doi.replace(/^(https?:\/\/)?(dx\.)?doi\.org\//, '')
cleanDoi_NoDx(d) ==
    IF \E p \in {"doi.org/", "http://doi.org/", "https://doi.org/"}, t \in DoiTails : d = p \o t
    THEN CHOOSE t \in DoiTails :
            \E p \in {"doi.org/", "http://doi.org/", "https://doi.org/"} : d = p \o t
    ELSE d

cleanDoi(d) ==
    IF \E p \in DoiPrefixes, t \in DoiTails : d = p \o t
    THEN CHOOSE t \in DoiTails : \E p \in DoiPrefixes : d = p \o t
    ELSE d

\* item.author.map(a => `${a.given} ${a.family}`).join(', ')
RECURSIVE JoinAuthors(_, _)
JoinAuthors(author, i) ==
    IF i > Len(author) THEN ""
    ELSE author[i].given \o " " \o author[i].family
            \o (IF i < Len(author) THEN ", " ELSE "")
            \o JoinAuthors(author, i + 1)

\* x?.[0] || fallback on a list of strings that may be missing
FirstOrElse(item, field, fallback) ==
    IF field \in DOMAIN item /\ Len(item[field]) > 0
    THEN OrElse(item[field][1], fallback)
    ELSE fallback

\* a Crossref answer: the fetch rejects, or an HTTP response whose body parses
\* to json or does not
HttpResponse(ok) == [kind |-> "http", ok |-> ok]
JsonResponse(json) == [kind |-> "http", ok |-> TRUE, json |-> json]

\* fetchDoiMetadata(doi), after Crossref answered resp: every failure inside the
\* try is rethrown with the one message
fetchDoiMetadata_AbstractRequired(d, resp) ==
    IF resp.kind = "throw" THEN Throw(DoiFetchErrorMessage)
    ELSE IF ~resp.ok THEN Throw(DoiFetchErrorMessage)
    ELSE IF "json" \notin DOMAIN resp THEN Throw(DoiFetchErrorMessage)
    ELSE IF "message" \notin DOMAIN resp.json THEN Throw(DoiFetchErrorMessage)
    ELSE IF "abstract" \notin DOMAIN resp.json.message THEN Throw(DoiFetchErrorMessage)
    ELSE LET item == resp.json.message
         IN  Return([title |-> FirstOrElse(item, "title", UntitledTitle),
                     content |-> item.abstract,
                     doi |-> cleanDoi(d),
                     authors |-> IF "author" \in DOMAIN item
                                 THEN JoinAuthors(item.author, 1) ELSE "",
                     journalName |-> FirstOrElse(item, "container-title", "")])

fetchDoiMetadata(d, resp) ==
    IF resp.kind = "throw" THEN Throw(DoiFetchErrorMessage)
    ELSE IF ~resp.ok THEN Throw(DoiFetchErrorMessage)
    ELSE IF "json" \notin DOMAIN resp THEN Throw(DoiFetchErrorMessage)
    ELSE IF "message" \notin DOMAIN resp.json THEN Throw(DoiFetchErrorMessage)
    ELSE LET item == resp.json.message
         IN  Return([title |-> FirstOrElse(item, "title", UntitledTitle),
                     content |-> IF "abstract" \in DOMAIN item
                                 THEN OrElse(item.abstract, NoAbstractMessage)
                                 ELSE NoAbstractMessage,
                     doi |-> cleanDoi(d),
                     authors |-> IF "author" \in DOMAIN item
                                 THEN JoinAuthors(item.author, 1) ELSE "",
                     journalName |-> FirstOrElse(item, "container-title", "")])

\* the JSON documents of the model, as text and parsed
PdfJsonFull == "{\"title\":\"Coatings\",\"authors\":\"Tao Zhang, Ling Yin\",\"abstract\":\"An abstract\",\"journal\":\"Advanced Science\"}"
PdfJsonEmpty == "{}"

JsonParse(text) ==
    CASE text = PdfJsonFull ->
            Return([title |-> "Coatings", authors |-> "Tao Zhang, Ling Yin",
                    abstract |-> "An abstract", journal |-> "Advanced Science"])
      [] text = PdfJsonEmpty -> Return([empty |-> TRUE])
      [] OTHER -> Throw(JsonSyntaxErrorMessage)

\* json.field || ""
FieldOrEmpty(json, field) == IF field \in DOMAIN json THEN json[field] ELSE ""

\* extractPdfMetadata(pdfBase64), after the backend answered resp
extractPdfMetadata(resp) ==
    IF resp.kind = "throw" THEN resp
    ELSE IF "text" \notin DOMAIN resp \/ resp.text = "" THEN Throw(PdfNoTextMessage)
    ELSE LET json == JsonParse(resp.text)
         IN  IF json.kind = "throw" THEN json
             ELSE Return([title |-> FieldOrEmpty(json.value, "title"),
                          authors |-> FieldOrEmpty(json.value, "authors"),
                          content |-> FieldOrEmpty(json.value, "abstract"),
                          journalName |-> FieldOrEmpty(json.value, "journal")])

-----------------------------------------------------------------------------
(* App: what the render derives from status *)

\* InputSection's isGenerating prop
isGenerating == status \in {"analyzing", "generating", "refining"}

\* ResultDisplay returns the placeholder or the loader unless this holds; the
\* editor (toolbar, canvas, refine box) and containerRef.current exist only then
EditorVisible == status \notin {"idle", "analyzing", "generating", "refining"}

\* the error banner with its 'Try Again' button
BannerVisible == status = "error" /\ errorMessage \notin {null, ""}

NoCall == [pc |-> "none"]

\* a service function calls getAiClient first: without a key it rejects before
\* any request is sent, otherwise the request goes out and the answer is pending
Issue_IgnoresKey == Pending

Issue == IF getAiClient.kind = "throw" THEN getAiClient ELSE Pending

\* where generateCoverImage and refineCoverImage stand after getAiClient: the
\* credential check of the pro model when the host has a selector, else the
\* image request itself
ImageStage_AnyModel(config) ==
    IF getAiClient.kind = "throw" THEN "client"
    ELSE IF aistudio # nullObj THEN "hasSelectedApiKey"
    ELSE "request"

ImageStage(config) ==
    IF getAiClient.kind = "throw" THEN "client"
    ELSE IF config.model = PRO_IMAGE /\ aistudio # nullObj THEN "hasSelectedApiKey"
    ELSE "request"

\* after await window.aistudio.hasSelectedApiKey(): the selector is opened when
\* no key is selected, else the request is sent
AfterHasSelectedApiKey(hasKey) == IF hasKey THEN "request" ELSE "openSelectKey"

-----------------------------------------------------------------------------
(* App.handleGenerate *)

\* handleGenerate up to its first await
handleGenerate_KeepsImage(data, config) ==
    /\ status' = "analyzing"
    /\ errorMessage' = null
    /\ generatedPrompt' = null
    /\ currentData' = data
    /\ currentConfig' = config
    /\ genCall' = [pc |-> "describe", data |-> data, config |-> config, resp |-> Issue]
    /\ UNCHANGED <<generatedImage, refineCall>>

handleGenerate(data, config) ==
    /\ status' = "analyzing"
    /\ errorMessage' = null
    /\ generatedImage' = null
    /\ generatedPrompt' = null
    /\ currentData' = data
    /\ currentConfig' = config
    /\ genCall' = [pc |-> "describe", data |-> data, config |-> config, resp |-> Issue]
    /\ UNCHANGED refineCall

\* the catch block of handleGenerate
handleGenerateCatch_NoDefault(e) ==
    /\ status' = "error"
    /\ errorMessage' = e.message
    /\ genCall' = NoCall
    /\ UNCHANGED <<currentData, currentConfig, generatedImage, generatedPrompt, refineCall>>

\* a catch block that would log the error and leave the status as it is
handleGenerateCatch_KeepsStatus(e) ==
    /\ genCall' = NoCall
    /\ UNCHANGED <<status, errorMessage, currentData, currentConfig, generatedImage,
                   generatedPrompt, refineCall>>

handleGenerateCatch(e) ==
    /\ status' = "error"
    /\ errorMessage' = OrElse(e.message, DefaultGenerationError)
    /\ genCall' = NoCall
    /\ UNCHANGED <<currentData, currentConfig, generatedImage, generatedPrompt, refineCall>>

\* handleGenerate between its two awaits: the prompt is stored and handed on
handleGenerateDescribed_WrongPrompt(visualPrompt) ==
    /\ generatedPrompt' = visualPrompt
    /\ status' = "generating"
    /\ genCall' = [pc |-> "generate", visualPrompt |-> genCall.data.title,
                   config |-> genCall.config, stage |-> ImageStage(genCall.config),
                   resp |-> Issue]
    /\ UNCHANGED <<currentData, currentConfig, generatedImage, errorMessage, refineCall>>

handleGenerateDescribed(visualPrompt) ==
    /\ generatedPrompt' = visualPrompt
    /\ status' = "generating"
    /\ genCall' = [pc |-> "generate", visualPrompt |-> visualPrompt,
                   config |-> genCall.config, stage |-> ImageStage(genCall.config),
                   resp |-> Issue]
    /\ UNCHANGED <<currentData, currentConfig, generatedImage, errorMessage, refineCall>>

\* handleGenerate after its second await
handleGenerateCompleted(imageUrl) ==
    /\ generatedImage' = imageUrl
    /\ status' = "completed"
    /\ genCall' = NoCall
    /\ UNCHANGED <<currentData, currentConfig, generatedPrompt, errorMessage, refineCall>>

\* await generateVisualDescription(...) settles
DescribeSettled ==
    /\ genCall.pc = "describe"
    /\ genCall.resp # Pending
    /\ LET r == generateVisualDescription(genCall.resp)
       IN  IF r.kind = "throw" THEN handleGenerateCatch(r)
           ELSE handleGenerateDescribed(r.value)
    /\ UNCHANGED <<envVars, inputVars, error, editorVars, dragVars, coverVars>>

\* await generateCoverImage(...) settles
GenerateSettled ==
    /\ genCall.pc = "generate"
    /\ genCall.resp # Pending
    /\ LET r == generateCoverImage(genCall.resp)
       IN  IF r.kind = "throw" THEN handleGenerateCatch(r)
           ELSE handleGenerateCompleted(r.value)
    /\ UNCHANGED <<envVars, inputVars, error, editorVars, dragVars, coverVars>>

\* ResultDisplay's effect on articleData: the cover's text takes the record's
\* non-empty journal name (upper-cased), title, authors and doi
syncArticleData_KeepsTitle(prev, articleData) ==
    IF articleData = nullObj THEN prev
    ELSE [prev EXCEPT !.journalName = OrElse(toUpperCase(articleData.journalName), @),
                      !.authors = OrElse(articleData.authors, @),
                      !.doi = OrElse(articleData.doi, @)]

syncArticleData(prev, articleData) ==
    IF articleData = nullObj THEN prev
    ELSE [prev EXCEPT !.journalName = OrElse(toUpperCase(articleData.journalName), @),
                      !.title = OrElse(articleData.title, @),
                      !.authors = OrElse(articleData.authors, @),
                      !.doi = OrElse(articleData.doi, @)]

\* the record handleGenerateClick hands to onGenerate
FormData == [title |-> title, content |-> content, doi |-> doi,
             authors |-> authors, journalName |-> journalName]

\* InputSection.handleGenerateClick, the button being enabled; the model is
\* drawn with the click.  The render that follows setCurrentData runs
\* ResultDisplay's effect on articleData.
handleGenerateClick_ChecksTitleOnly(model) ==
    /\ ~isGenerating
    /\ ~fileLoading
    /\ IF title = ""
       THEN /\ error' = ValidationMessage
            /\ UNCHANGED <<sessionVars, metadata>>
       ELSE /\ error' = null
            /\ handleGenerate(FormData, [model |-> model])
            /\ metadata' = syncArticleData(metadata, FormData)
    /\ UNCHANGED <<envVars, inputVars, editorVars, dragVars, fontOffsets>>

handleGenerateClick(model) ==
    /\ ~isGenerating
    /\ ~fileLoading
    /\ IF title = "" \/ content = ""
       THEN /\ error' = ValidationMessage
            /\ UNCHANGED <<sessionVars, metadata>>
       ELSE /\ error' = null
            /\ handleGenerate(FormData, [model |-> model])
            /\ metadata' = syncArticleData(metadata, FormData)
    /\ UNCHANGED <<envVars, inputVars, editorVars, dragVars, fontOffsets>>

-----------------------------------------------------------------------------
(* InputSection: typing into the form *)

setTitle(v) ==
    /\ activeTab = "text"
    /\ title' = v
    /\ UNCHANGED <<activeTab, content, authors, journalName, doi, resolverVars>>
    /\ UNCHANGED <<sessionVars, envVars, error, editorVars, dragVars, coverVars>>

setContent(v) ==
    /\ activeTab = "text"
    /\ content' = v
    /\ UNCHANGED <<activeTab, title, authors, journalName, doi, resolverVars>>
    /\ UNCHANGED <<sessionVars, envVars, error, editorVars, dragVars, coverVars>>

setAuthors(v) ==
    /\ activeTab = "text"
    /\ authors' = v
    /\ UNCHANGED <<activeTab, title, content, journalName, doi, resolverVars>>
    /\ UNCHANGED <<sessionVars, envVars, error, editorVars, dragVars, coverVars>>

setJournalName(v) ==
    /\ activeTab = "text"
    /\ journalName' = v
    /\ UNCHANGED <<activeTab, title, content, authors, doi, resolverVars>>
    /\ UNCHANGED <<sessionVars, envVars, error, editorVars, dragVars, coverVars>>

setDoi(v) ==
    /\ activeTab = "doi"
    /\ doi' = v
    /\ UNCHANGED <<activeTab, title, content, authors, journalName, resolverVars>>
    /\ UNCHANGED <<sessionVars, envVars, error, editorVars, dragVars, coverVars>>

setActiveTab(t) ==
    /\ activeTab' = t
    /\ UNCHANGED <<articleVars, resolverVars>>
    /\ UNCHANGED <<sessionVars, envVars, error, editorVars, dragVars, coverVars>>

-----------------------------------------------------------------------------
(* InputSection.handleDoiFetch *)

DoiFailMessage == "Failed to fetch DOI. Please enter details manually."
PdfFailMessage == "Failed to analyze PDF with AI. Please try pasting text."
ReadFailMessage == "Failed to read file."

\* the abstracts of the model, and the JATS tags Crossref wraps them in
Abstracts == {"An abstract"}
OpenTag == "<jats:p>"
CloseTag == "</jats:p>"

\* data.content.replace(/<[^>]*>?/gm, '')
stripTags(text) ==
    IF \E a \in Abstracts : text = OpenTag \o a \o CloseTag
    THEN CHOOSE a \in Abstracts : text = OpenTag \o a \o CloseTag
    ELSE text

\* the Fetch button up to the await: disabled while a lookup is pending
handleDoiFetch ==
    /\ activeTab = "doi"
    /\ ~doiLoading
    /\ IF doi = ""
       THEN UNCHANGED <<doiLoading, error, doiCall>>
       ELSE /\ doiLoading' = TRUE
            /\ error' = null
            /\ doiCall' = [pc |-> "fetch", doi |-> doi, cleanDoi |-> cleanDoi(doi),
                           resp |-> Pending]
    /\ UNCHANGED <<activeTab, articleVars, fileLoading, fileCall>>
    /\ UNCHANGED <<sessionVars, envVars, editorVars, dragVars, coverVars>>

\* the try block after the await, then the finally block
handleDoiFetchSucceeded(data) ==
    /\ title' = data.title
    /\ content' = stripTags(data.content)
    /\ authors' = OrElse(data.authors, authors)
    /\ journalName' = IF data.journalName = "" THEN journalName
                      ELSE toUpperCase(data.journalName)
    /\ activeTab' = "text"
    /\ doiLoading' = FALSE
    /\ UNCHANGED <<doi, error>>

\* the catch block, then the finally block
handleDoiFetchCatch_ClearsForm ==
    /\ error' = DoiFailMessage
    /\ doiLoading' = FALSE
    /\ title' = ""
    /\ content' = ""
    /\ UNCHANGED <<activeTab, authors, journalName, doi>>

handleDoiFetchCatch ==
    /\ error' = DoiFailMessage
    /\ doiLoading' = FALSE
    /\ UNCHANGED <<activeTab, articleVars>>

\* Crossref answers the lookup
DoiResponds(r) ==
    /\ doiCall.pc = "fetch"
    /\ doiCall.resp = Pending
    /\ doiCall' = [doiCall EXCEPT !.resp = r]
    /\ UNCHANGED <<activeTab, articleVars, doiLoading, fileLoading, fileCall, error>>
    /\ UNCHANGED <<sessionVars, envVars, editorVars, dragVars, coverVars>>

\* await fetchDoiMetadata(doi) settles
DoiSettled ==
    /\ doiCall.pc = "fetch"
    /\ doiCall.resp # Pending
    /\ LET r == fetchDoiMetadata(doiCall.doi, doiCall.resp)
       IN  IF r.kind = "throw" THEN handleDoiFetchCatch
           ELSE handleDoiFetchSucceeded(r.value)
    /\ doiCall' = NoCall
    /\ UNCHANGED <<fileLoading, fileCall>>
    /\ UNCHANGED <<sessionVars, envVars, editorVars, dragVars, coverVars>>

-----------------------------------------------------------------------------
(* InputSection.handleFileUpload *)

PdfType == "application/pdf"
TextType == "text/plain"

\* the names of the text files of the model, by their stems
FileStems == {"Coatings"}

\* file.name.split('.')[0]
fileStem(name) ==
    IF \E st \in FileStems : name = st \o ".txt"
    THEN CHOOSE st \in FileStems : name = st \o ".txt"
    ELSE name

\* the file input's onChange up to the reader's callback; the input is
\* replaced by a spinner while a file is loading
handleFileUpload(file) ==
    /\ activeTab = "file"
    /\ ~fileLoading
    /\ error' = null
    /\ fileLoading' = TRUE
    /\ fileCall' = [pc |-> "read", file |-> file]
    /\ UNCHANGED <<activeTab, articleVars, doiLoading, doiCall>>
    /\ UNCHANGED <<sessionVars, envVars, editorVars, dragVars, coverVars>>

\* the try block of the PDF reader's onload after the await, then its finally
handlePdfSucceeded(data) ==
    /\ title' = data.title
    /\ content' = data.content
    /\ authors' = OrElse(data.authors, authors)
    /\ journalName' = IF data.journalName = "" THEN journalName
                      ELSE toUpperCase(data.journalName)
    /\ activeTab' = "text"
    /\ fileLoading' = FALSE
    /\ UNCHANGED <<doi, error>>

\* its catch block, then its finally
handlePdfCatch ==
    /\ error' = PdfFailMessage
    /\ fileLoading' = FALSE
    /\ UNCHANGED <<activeTab, articleVars>>

\* reader.onload: the PDF goes to extractPdfMetadata, which rejects at once
\* without a key; the text file fills the form when it is not empty
FileReaderLoads(result) ==
    /\ fileCall.pc = "read"
    /\ IF fileCall.file.type = PdfType
       THEN IF Issue = Pending
            THEN /\ fileCall' = [pc |-> "extract", resp |-> Pending]
                 /\ UNCHANGED <<activeTab, articleVars, fileLoading, error>>
            ELSE /\ handlePdfCatch
                 /\ fileCall' = NoCall
       ELSE /\ fileCall' = NoCall
            /\ IF result # ""
               THEN /\ content' = result
                    /\ title' = fileStem(fileCall.file.name)
                    /\ activeTab' = "text"
                    /\ fileLoading' = FALSE
                    /\ UNCHANGED <<authors, journalName, doi, error>>
               ELSE UNCHANGED <<activeTab, articleVars, fileLoading, error>>
    /\ UNCHANGED <<doiLoading, doiCall>>
    /\ UNCHANGED <<sessionVars, envVars, editorVars, dragVars, coverVars>>

\* the read fails: the PDF reader has an onerror handler, the text reader none
FileReaderFails ==
    /\ fileCall.pc = "read"
    /\ fileCall' = NoCall
    /\ IF fileCall.file.type = PdfType
       THEN /\ error' = ReadFailMessage
            /\ fileLoading' = FALSE
       ELSE UNCHANGED <<fileLoading, error>>
    /\ UNCHANGED <<activeTab, articleVars, doiLoading, doiCall>>
    /\ UNCHANGED <<sessionVars, envVars, editorVars, dragVars, coverVars>>

\* the backend answers the extraction request
PdfResponds(r) ==
    /\ fileCall.pc = "extract"
    /\ fileCall.resp = Pending
    /\ fileCall' = [fileCall EXCEPT !.resp = r]
    /\ UNCHANGED <<activeTab, articleVars, doiLoading, fileLoading, doiCall, error>>
    /\ UNCHANGED <<sessionVars, envVars, editorVars, dragVars, coverVars>>

\* await extractPdfMetadata(base64) settles
PdfSettled ==
    /\ fileCall.pc = "extract"
    /\ fileCall.resp # Pending
    /\ LET r == extractPdfMetadata(fileCall.resp)
       IN  IF r.kind = "throw" THEN handlePdfCatch
           ELSE handlePdfSucceeded(r.value)
    /\ fileCall' = NoCall
    /\ UNCHANGED <<doiLoading, doiCall>>
    /\ UNCHANGED <<sessionVars, envVars, editorVars, dragVars, coverVars>>

-----------------------------------------------------------------------------
(* App.handleRefine, handleReset, 'Try Again' *)

\* handleRefine up to its await
handleRefine(instruction) ==
    IF generatedImage = null \/ currentConfig = nullObj
    THEN UNCHANGED sessionVars
    ELSE /\ status' = "refining"
         /\ errorMessage' = null
         /\ refineCall' = [pc |-> "refine",
                           currentImageBase64 |-> generatedImage,
                           base64Data |-> StripDataUrl(generatedImage),
                           instruction |-> instruction,
                           config |-> currentConfig,
                           stage |-> ImageStage(currentConfig), resp |-> Issue]
         /\ UNCHANGED <<currentData, currentConfig, generatedImage, generatedPrompt, genCall>>

\* the catch block of handleRefine
handleRefineCatch_ClearsImage(e) ==
    /\ status' = "error"
    /\ errorMessage' = RefineErrorPrefix \o OrElse(e.message, "")
    /\ generatedImage' = null
    /\ refineCall' = NoCall
    /\ UNCHANGED <<currentData, currentConfig, generatedPrompt, genCall>>

handleRefineCatch(e) ==
    /\ status' = "error"
    /\ errorMessage' = RefineErrorPrefix \o OrElse(e.message, "")
    /\ refineCall' = NoCall
    /\ UNCHANGED <<currentData, currentConfig, generatedImage, generatedPrompt, genCall>>

\* handleRefine after its await
handleRefineCompleted(refinedImageUrl) ==
    /\ generatedImage' = refinedImageUrl
    /\ status' = "completed"
    /\ refineCall' = NoCall
    /\ UNCHANGED <<currentData, currentConfig, generatedPrompt, errorMessage, genCall>>

\* await refineCoverImage(...) settles
RefineSettled ==
    /\ refineCall.pc = "refine"
    /\ refineCall.resp # Pending
    /\ LET r == refineCoverImage(refineCall.resp)
       IN  IF r.kind = "throw" THEN handleRefineCatch(r)
           ELSE handleRefineCompleted(r.value)
    /\ UNCHANGED <<envVars, inputVars, error, editorVars, dragVars, coverVars>>

\* the Apply button: disabled without text or while exporting
RefineApplyClick(refineText) ==
    /\ EditorVisible
    /\ refineText # ""
    /\ ~isExporting
    /\ handleRefine(refineText)
    /\ UNCHANGED <<envVars, inputVars, error, editorVars, dragVars, coverVars>>

\* Enter in the refine box: e.key === 'Enter' && refineText && onRefine(refineText)
RefineEnterKey(refineText) ==
    /\ EditorVisible
    /\ refineText # ""
    /\ handleRefine(refineText)
    /\ UNCHANGED <<envVars, inputVars, error, editorVars, dragVars, coverVars>>

\* a reset that would forget to clear the image
handleReset_KeepsImage ==
    /\ status' = "idle"
    /\ generatedPrompt' = null
    /\ currentData' = nullObj
    /\ currentConfig' = nullObj
    /\ UNCHANGED <<generatedImage, errorMessage, genCall, refineCall>>

handleReset ==
    /\ status' = "idle"
    /\ generatedImage' = null
    /\ generatedPrompt' = null
    /\ currentData' = nullObj
    /\ currentConfig' = nullObj
    /\ UNCHANGED <<errorMessage, genCall, refineCall>>

\* the toolbar's New button: disabled while exporting
ResetClick_ResetsLayout ==
    /\ EditorVisible
    /\ ~isExporting
    /\ handleReset
    /\ layout' = InitialLayout
    /\ UNCHANGED <<draggingKey, dragStartRef>>
    /\ UNCHANGED <<envVars, inputVars, error, editorVars, coverVars>>

ResetClick ==
    /\ EditorVisible
    /\ ~isExporting
    /\ handleReset
    /\ UNCHANGED <<envVars, inputVars, error, editorVars, dragVars, coverVars>>

\* the error banner's 'Try Again' button: onClick={() => setStatus('idle')}
TryAgainClick ==
    /\ BannerVisible
    /\ status' = "idle"
    /\ UNCHANGED <<currentData, currentConfig, generatedImage, generatedPrompt,
                   errorMessage, genCall, refineCall>>
    /\ UNCHANGED <<envVars, inputVars, error, editorVars, dragVars, coverVars>>

-----------------------------------------------------------------------------
(* The backend answers a request in flight *)

DescribeResponds(r) ==
    /\ genCall.pc = "describe"
    /\ genCall.resp = Pending
    /\ genCall' = [genCall EXCEPT !.resp = r]
    /\ UNCHANGED <<status, currentData, currentConfig, generatedImage, generatedPrompt,
                   errorMessage, refineCall>>
    /\ UNCHANGED <<envVars, inputVars, error, editorVars, dragVars, coverVars>>

GenerateResponds(r) ==
    /\ genCall.pc = "generate"
    /\ genCall.stage = "request"
    /\ genCall.resp = Pending
    /\ genCall' = [genCall EXCEPT !.resp = r]
    /\ UNCHANGED <<status, currentData, currentConfig, generatedImage, generatedPrompt,
                   errorMessage, refineCall>>
    /\ UNCHANGED <<envVars, inputVars, error, editorVars, dragVars, coverVars>>

RefineResponds(r) ==
    /\ refineCall.pc = "refine"
    /\ refineCall.stage = "request"
    /\ refineCall.resp = Pending
    /\ refineCall' = [refineCall EXCEPT !.resp = r]
    /\ UNCHANGED <<status, currentData, currentConfig, generatedImage, generatedPrompt,
                   errorMessage, genCall>>
    /\ UNCHANGED <<envVars, inputVars, error, editorVars, dragVars, coverVars>>

-----------------------------------------------------------------------------
(* The host's key selector answers the credential check of the pro model *)

\* await window.aistudio.hasSelectedApiKey() settles in generateCoverImage
GenerateHasSelectedApiKey ==
    /\ genCall.pc = "generate"
    /\ genCall.stage = "hasSelectedApiKey"
    /\ genCall' = [genCall EXCEPT !.stage = AfterHasSelectedApiKey(aistudio.hasKey)]
    /\ UNCHANGED <<status, currentData, currentConfig, generatedImage, generatedPrompt,
                   errorMessage, refineCall>>
    /\ UNCHANGED <<envVars, inputVars, error, editorVars, dragVars, coverVars>>

\* await window.aistudio.openSelectKey() settles in generateCoverImage: the user
\* picked a key or closed the selector
GenerateOpenSelectKey(picked) ==
    /\ genCall.pc = "generate"
    /\ genCall.stage = "openSelectKey"
    /\ genCall' = [genCall EXCEPT !.stage = "request"]
    /\ aistudio' = [hasKey |-> picked]
    /\ UNCHANGED <<status, currentData, currentConfig, generatedImage, generatedPrompt,
                   errorMessage, refineCall>>
    /\ UNCHANGED <<apiKey, inputVars, error, editorVars, dragVars, coverVars>>

\* the same two awaits in refineCoverImage
RefineHasSelectedApiKey ==
    /\ refineCall.pc = "refine"
    /\ refineCall.stage = "hasSelectedApiKey"
    /\ refineCall' = [refineCall EXCEPT !.stage = AfterHasSelectedApiKey(aistudio.hasKey)]
    /\ UNCHANGED <<status, currentData, currentConfig, generatedImage, generatedPrompt,
                   errorMessage, genCall>>
    /\ UNCHANGED <<envVars, inputVars, error, editorVars, dragVars, coverVars>>

RefineOpenSelectKey(picked) ==
    /\ refineCall.pc = "refine"
    /\ refineCall.stage = "openSelectKey"
    /\ refineCall' = [refineCall EXCEPT !.stage = "request"]
    /\ aistudio' = [hasKey |-> picked]
    /\ UNCHANGED <<status, currentData, currentConfig, generatedImage, generatedPrompt,
                   errorMessage, genCall>>
    /\ UNCHANGED <<apiKey, inputVars, error, editorVars, dragVars, coverVars>>

-----------------------------------------------------------------------------
(* ResultDisplay: interaction mode, focus, PDF export *)

\* the 'Edit Text' / 'Adjust Layout' buttons: disabled while exporting
SetMode(m) ==
    /\ EditorVisible
    /\ ~isExporting
    /\ mode' = m
    /\ UNCHANGED <<isExporting, activeField, exportCall, exportOutcome>>
    /\ UNCHANGED <<sessionVars, envVars, inputVars, error, dragVars, coverVars>>

\* onFocus of a cover field
FocusField(f) ==
    /\ EditorVisible
    /\ activeField' = f
    /\ UNCHANGED <<mode, isExporting, exportCall, exportOutcome>>
    /\ UNCHANGED <<sessionVars, envVars, inputVars, error, dragVars, coverVars>>

\* handleDownloadPdf up to its first await (the Export button is disabled
\* while exporting; containerRef.current exists when the editor is rendered)
handleDownloadPdf ==
    /\ EditorVisible
    /\ ~isExporting
    /\ isExporting' = TRUE
    /\ exportCall' = [pc |-> "timeout", prevMode |-> mode]
    /\ mode' = "edit"
    /\ activeField' = null
    /\ UNCHANGED exportOutcome
    /\ UNCHANGED <<sessionVars, envVars, inputVars, error, dragVars, coverVars>>

\* the finally block, after the try (saved) or the catch (alert)
handleDownloadPdfFinally_ForcesEdit(outcome) ==
    /\ mode' = "edit"
    /\ isExporting' = FALSE
    /\ exportCall' = NoCall
    /\ exportOutcome' = outcome
    /\ UNCHANGED activeField

handleDownloadPdfFinally(outcome) ==
    /\ mode' = exportCall.prevMode
    /\ isExporting' = FALSE
    /\ exportCall' = NoCall
    /\ exportOutcome' = outcome
    /\ UNCHANGED activeField

\* the 100 ms timer fires and html2canvas(containerRef.current) is called: it
\* snapshots the canvas, or rejects at once when the element is gone
ExportCapture ==
    /\ exportCall.pc = "timeout"
    /\ IF EditorVisible
       THEN /\ exportCall' = [exportCall EXCEPT !.pc = "capture"]
            /\ UNCHANGED <<mode, isExporting, activeField, exportOutcome>>
       ELSE handleDownloadPdfFinally("alert")
    /\ UNCHANGED <<sessionVars, envVars, inputVars, error, dragVars, coverVars>>

\* html2canvas settles; rendering, encoding and saving succeed or throw
ExportSettled(ok) ==
    /\ exportCall.pc = "capture"
    /\ handleDownloadPdfFinally(IF ok THEN "saved" ELSE "alert")
    /\ UNCHANGED <<sessionVars, envVars, inputVars, error, dragVars, coverVars>>

-----------------------------------------------------------------------------
(* ResultDisplay: the cover's text and its font sizes *)

FONT_SIZES ==
    <<"text-[8px] md:text-[10px]", "text-[10px] md:text-xs", "text-xs md:text-sm",
      "text-sm md:text-base", "text-base md:text-lg", "text-lg md:text-xl",
      "text-xl md:text-2xl", "text-2xl md:text-3xl", "text-3xl md:text-4xl",
      "text-4xl md:text-5xl", "text-5xl md:text-6xl", "text-6xl md:text-7xl",
      "text-7xl md:text-8xl", "text-8xl md:text-9xl", "text-9xl md:text-[10rem]">>

\* the nine text fields of the cover
CoverFields == {"journalName", "date", "volumeInfo", "website", "tag", "title",
                "authors", "footer", "doi"}

\* bound of the font model: offsets kept within -MaxOffset..MaxOffset
MaxOffset == 3

\* fontOffsets[field] || 0
FontOffset(offsets, field) == IF field \in DOMAIN offsets THEN offsets[field] ELSE 0

\* the index getResponsiveSize computes for a field
getResponsiveIndex_Unclamped(baseIndex, field) == baseIndex + FontOffset(fontOffsets, field)

getResponsiveIndex(baseIndex, field) ==
    IF baseIndex + FontOffset(fontOffsets, field) < Len(FONT_SIZES) - 1
    THEN IF baseIndex + FontOffset(fontOffsets, field) > 0
         THEN baseIndex + FontOffset(fontOffsets, field) ELSE 0
    ELSE Len(FONT_SIZES) - 1

\* FONT_SIZES is indexed from 0 in the source
getResponsiveSize(baseIndex, field) ==
    IF field = null THEN FONT_SIZES[baseIndex + 1]
    ELSE FONT_SIZES[getResponsiveIndex(baseIndex, field) + 1]

getJournalBaseIndex(len) == IF len < 10 THEN 12 ELSE IF len < 20 THEN 11 ELSE IF len < 30 THEN 10 ELSE 9

getTitleBaseIndex(len) == IF len < 30 THEN 8 ELSE IF len < 60 THEN 7 ELSE IF len < 100 THEN 6 ELSE 5

getAuthorsBaseIndex(len) == IF len < 50 THEN 4 ELSE IF len < 100 THEN 2 ELSE 1

\* the base index each field's className passes to getResponsiveSize
BaseIndex(field) ==
    CASE field = "journalName" -> getJournalBaseIndex(Len(metadata.journalName))
      [] field = "title" -> getTitleBaseIndex(Len(metadata.title))
      [] field = "authors" -> getAuthorsBaseIndex(Len(metadata.authors))
      [] field \in {"date", "volumeInfo", "website", "tag"} -> 2
      [] field \in {"footer", "doi"} -> 1

\* setFontOffsets(prev => ({...prev, [activeField]: (prev[activeField] || 0) + delta}))
handleFontSizeChange_EveryField(delta) ==
    IF activeField = null THEN UNCHANGED fontOffsets
    ELSE fontOffsets' = [f \in DOMAIN fontOffsets \cup {activeField} |->
                            FontOffset(fontOffsets, f) + delta]

handleFontSizeChange(delta) ==
    IF activeField = null THEN UNCHANGED fontOffsets
    ELSE fontOffsets' = [f \in DOMAIN fontOffsets \cup {activeField} |->
                            IF f = activeField THEN FontOffset(fontOffsets, f) + delta
                            ELSE fontOffsets[f]]

\* the two 'Text Size' buttons: disabled without a focused field or while
\* exporting
FontSizeClick(delta) ==
    /\ EditorVisible
    /\ activeField # null
    /\ ~isExporting
    /\ handleFontSizeChange(delta)
    /\ \A f \in DOMAIN fontOffsets' : -MaxOffset <= fontOffsets'[f] /\ fontOffsets'[f] <= MaxOffset
    /\ UNCHANGED metadata
    /\ UNCHANGED <<sessionVars, envVars, inputVars, error, editorVars, dragVars>>

\* typing into a field of the cover
handleMetadataChange(field, value) ==
    /\ EditorVisible
    /\ metadata' = [metadata EXCEPT ![field] = value]
    /\ UNCHANGED fontOffsets
    /\ UNCHANGED <<sessionVars, envVars, inputVars, error, editorVars, dragVars>>

-----------------------------------------------------------------------------
(* ResultDisplay: drag layout *)

\* the cover's text after construction ('*' stands for the bullet sign)
InitialMetadata ==
    [journalName |-> "ADVANCED SCIENCE",
     date |-> "DECEMBER 2025",
     volumeInfo |-> "VOL. 420 * NO. 69",
     website |-> "WWW.ADVANCEDSCIENCE.COM",
     tag |-> "RESEARCH ARTICLE",
     title |-> "Bioinspired Brush Reinforced Solid Slippery Coatings for Marine Photovoltaic Protection",
     authors |-> "Ling Yin, Runxiang Tan, Junyi Han, Jianing Wang, Jianjun Cheng, Daheng Wu, Tao Zhang, Liping Wang",
     footer |-> "FEATURED IN THIS ISSUE",
     doi |-> "10.1002/advs.202500123"]

\* bounds of the drag model
MaxCoord == 160
MaxPointerSteps == 1

\* the canvas rectangle: aspectRatio 210/297, rendered two pixels per unit
ContainerWidth == 210 * 2
ContainerHeight == 297 * 2

Min(a, b) == IF a < b THEN a ELSE b
Max(a, b) == IF a > b THEN a ELSE b

\* (delta / containerRect.width) * 100, in whole percent
Percent(delta, size) == (delta * 100) \div size

\* startX + deltaXPercent, startY + deltaYPercent for a pointer at p
DragTarget(p) ==
    [x |-> dragStartRef.startX + Percent(p[1] - dragStartRef.mouseX, ContainerWidth),
     y |-> dragStartRef.startY + Percent(p[2] - dragStartRef.mouseY, ContainerHeight)]

\* Math.max(-10, Math.min(100, v))
Clamp(v) == Max(-10, Min(100, v))

DragActive == draggingKey # null /\ dragStartRef # nullObj /\ EditorVisible

\* the canvas's onMouseMove, applied to layout l
handleMouseMove(l, p) ==
    IF ~DragActive THEN l
    ELSE [l EXCEPT ![draggingKey] = [x |-> Clamp(DragTarget(p).x), y |-> Clamp(DragTarget(p).y)]]

\* a listener that would move every group to the pointer's target
handleWindowMouseMove_MovesEveryGroup(l, p) ==
    IF ~DragActive THEN l
    ELSE [k \in LayoutKeys |-> DragTarget(p)]

\* the window's mousemove listener installed by the effect on draggingKey
handleWindowMouseMove(l, p) ==
    IF ~DragActive THEN l
    ELSE [l EXCEPT ![draggingKey] = DragTarget(p)]

handleMouseDown(key, p) ==
    /\ EditorVisible
    /\ mode = "layout"
    /\ draggingKey' = key
    /\ dragStartRef' = [mouseX |-> p[1], mouseY |-> p[2],
                        startX |-> layout[key].x, startY |-> layout[key].y]
    /\ UNCHANGED layout
    /\ UNCHANGED <<sessionVars, envVars, inputVars, error, editorVars, coverVars>>

\* the window's mouseup listener, installed while draggingKey is set
handleMouseUp ==
    /\ draggingKey # null
    /\ draggingKey' = null
    /\ dragStartRef' = nullObj
    /\ UNCHANGED layout
    /\ UNCHANGED <<sessionVars, envVars, inputVars, error, editorVars, coverVars>>

\* positions stay within the modelled range
InRange(l) == \A k \in LayoutKeys : /\ -MaxCoord <= l[k].x /\ l[k].x <= MaxCoord
                                    /\ -MaxCoord <= l[k].y /\ l[k].y <= MaxCoord

\* a pointer move over the canvas: the event reaches the canvas's React
\* handler first, then bubbles to the window's listener, which is installed
\* only while draggingKey is set; both setLayout updates are applied in that
\* order, and both handlers return at once when no drag is in progress
MouseMoveOverCanvas(p) ==
    /\ EditorVisible
    /\ layout' = IF draggingKey # null
                 THEN handleWindowMouseMove(handleMouseMove(layout, p), p)
                 ELSE handleMouseMove(layout, p)
    /\ InRange(layout')
    /\ UNCHANGED <<draggingKey, dragStartRef>>
    /\ UNCHANGED <<sessionVars, envVars, inputVars, error, editorVars, coverVars>>

\* a pointer move outside the canvas: only the window's listener, and none
\* when no drag is in progress
MouseMoveElsewhere(p) ==
    /\ layout' = IF draggingKey # null THEN handleWindowMouseMove(layout, p) ELSE layout
    /\ InRange(layout')
    /\ UNCHANGED <<draggingKey, dragStartRef>>
    /\ UNCHANGED <<sessionVars, envVars, inputVars, error, editorVars, coverVars>>

-----------------------------------------------------------------------------
(* Inputs *)

Titles == {"", "Coatings"}
Contents == {"", "An abstract"}
Models == {FLASH_IMAGE, PRO_IMAGE}
RefineTexts == {"", "darker"}
Fields == {"journalName", "title"}
Modes == {"edit", "layout"}
ErrorTexts == {"", "Network error"}

DescribeAnswers ==
    {Throw(m) : m \in ErrorTexts}
        \cup {NoTextResponse, TextResponse(""), TextResponse("A glowing cell")}

ImageAnswers ==
    {Throw(m) : m \in ErrorTexts}
        \cup {NoCandidatesResponse, EmptyCandidatesResponse, NoPartsResponse,
              PartsResponse(<<>>), PartsResponse(<<TextPart>>),
              PartsResponse(<<TextPart, InlinePart("AAAA")>>),
              PartsResponse(<<InlinePart("BBBB"), InlinePart("AAAA")>>)}

\* pointer positions: the origin and MaxPointerSteps steps of 1.5 canvas sizes
Pointers == {<<k * ((ContainerWidth * 3) \div 2), k * ((ContainerHeight * 3) \div 2)>> :
                k \in 0..MaxPointerSteps}

-----------------------------------------------------------------------------
(* The state after the first render *)

Init ==
    /\ status = "idle"
    /\ currentData = nullObj
    /\ currentConfig = nullObj
    /\ generatedImage = null
    /\ generatedPrompt = null
    /\ errorMessage = null
    /\ genCall = NoCall
    /\ refineCall = NoCall
    /\ apiKey \in BOOLEAN
    /\ aistudio \in {nullObj, [hasKey |-> FALSE], [hasKey |-> TRUE]}
    /\ activeTab = "text"
    /\ title = ""
    /\ content = ""
    /\ authors = ""
    /\ journalName = "NATURE"
    /\ doi = ""
    /\ doiLoading = FALSE
    /\ fileLoading = FALSE
    /\ error = null
    /\ doiCall = NoCall
    /\ fileCall = NoCall
    /\ mode = "edit"
    /\ isExporting = FALSE
    /\ activeField = null
    /\ layout = InitialLayout
    /\ draggingKey = null
    /\ dragStartRef = nullObj
    /\ exportCall = NoCall
    /\ exportOutcome = "none"
    /\ metadata = InitialMetadata
    /\ fontOffsets = [f \in {} |-> 0]

\* session and editor, without drags
Next ==
    \/ \E v \in Titles : setTitle(v)
    \/ \E v \in Contents : setContent(v)
    \/ \E m \in Models : handleGenerateClick(m)
    \/ \E r \in DescribeAnswers : DescribeResponds(r)
    \/ DescribeSettled
    \/ \E r \in ImageAnswers : GenerateResponds(r)
    \/ GenerateHasSelectedApiKey
    \/ \E picked \in BOOLEAN : GenerateOpenSelectKey(picked)
    \/ GenerateSettled
    \/ \E x \in RefineTexts : RefineApplyClick(x)
    \/ \E x \in RefineTexts : RefineEnterKey(x)
    \/ \E r \in ImageAnswers : RefineResponds(r)
    \/ RefineHasSelectedApiKey
    \/ \E picked \in BOOLEAN : RefineOpenSelectKey(picked)
    \/ RefineSettled
    \/ ResetClick
    \/ TryAgainClick
    \/ \E m \in Modes : SetMode(m)
    \/ \E f \in Fields : FocusField(f)
    \/ handleDownloadPdf
    \/ ExportCapture
    \/ \E ok \in BOOLEAN : ExportSettled(ok)

Spec == Init /\ [][Next]_vars

\* the drag layout, with the session and the export it runs beside; the session
\* is driven by one article and one answer of each kind
LayoutDescribeAnswers == {TextResponse("A glowing cell")}
LayoutImageAnswers == {Throw("Network error"), PartsResponse(<<InlinePart("AAAA")>>)}

NextLayout ==
    \/ setTitle("Coatings")
    \/ setContent("An abstract")
    \/ handleGenerateClick(FLASH_IMAGE)
    \/ \E r \in LayoutDescribeAnswers : DescribeResponds(r)
    \/ DescribeSettled
    \/ \E r \in LayoutImageAnswers : GenerateResponds(r)
    \/ GenerateSettled
    \/ RefineEnterKey("darker")
    \/ \E r \in LayoutImageAnswers : RefineResponds(r)
    \/ RefineSettled
    \/ ResetClick
    \/ TryAgainClick
    \/ \E m \in Modes : SetMode(m)
    \/ handleDownloadPdf
    \/ ExportCapture
    \/ \E ok \in BOOLEAN : ExportSettled(ok)
    \/ \E k \in LayoutKeys, p \in Pointers : handleMouseDown(k, p)
    \/ \E p \in Pointers : MouseMoveOverCanvas(p)
    \/ \E p \in Pointers : MouseMoveElsewhere(p)
    \/ handleMouseUp

\* the fast model never consults the host's selector
InitFastModel == Init /\ aistudio = nullObj

SpecLayout == InitFastModel /\ [][NextLayout]_vars

\* the cover's text and font sizes beside the session and the export
FontFields == {"journalName", "date"}

NextCover ==
    \/ setTitle("Coatings")
    \/ setContent("An abstract")
    \/ handleGenerateClick(FLASH_IMAGE)
    \/ \E r \in LayoutDescribeAnswers : DescribeResponds(r)
    \/ DescribeSettled
    \/ \E r \in LayoutImageAnswers : GenerateResponds(r)
    \/ GenerateSettled
    \/ ResetClick
    \/ TryAgainClick
    \/ \E f \in FontFields : FocusField(f)
    \/ \E d \in {-1, 1} : FontSizeClick(d)
    \/ \E v \in {"", "JOURNAL OF THE AMERICAN CHEMICAL SOCIETY"} :
          handleMetadataChange("journalName", v)
    \/ handleDownloadPdf
    \/ ExportCapture
    \/ \E ok \in BOOLEAN : ExportSettled(ok)

SpecCover == InitFastModel /\ [][NextCover]_vars

\* the form and its two resolvers beside the session; the form is filled by the
\* resolvers alone
Tabs == {"text", "doi", "file"}
Dois == {"", "https://doi.org/10.1002/advs.1"}
CrossrefItemFull ==
    [title |-> <<"Coatings">>,
     abstract |-> OpenTag \o "An abstract" \o CloseTag,
     author |-> <<[given |-> "Tao", family |-> "Zhang"], [given |-> "Ling", family |-> "Yin"]>>]
        @@ ("container-title" :> <<"Advanced Science">>)
CrossrefItemBare == [type |-> "journal-article"]
DoiAnswers ==
    {Throw("Failed to fetch"), HttpResponse(FALSE), HttpResponse(TRUE),
     JsonResponse([status |-> "ok"]),
     JsonResponse([message |-> CrossrefItemFull]),
     JsonResponse([message |-> CrossrefItemBare])}
Files == {[type |-> PdfType, name |-> "Coatings.pdf"], [type |-> TextType, name |-> "Coatings.txt"]}
FileResults == {"", "An abstract"}
PdfAnswers ==
    {Throw("Network error"), NoTextResponse, TextResponse("not json"),
     TextResponse(PdfJsonFull), TextResponse(PdfJsonEmpty)}

NextInput ==
    \/ \E t \in Tabs : setActiveTab(t)
    \/ \E v \in Dois : setDoi(v)
    \/ handleDoiFetch
    \/ \E r \in DoiAnswers : DoiResponds(r)
    \/ DoiSettled
    \/ \E f \in Files : handleFileUpload(f)
    \/ \E x \in FileResults : FileReaderLoads(x)
    \/ FileReaderFails
    \/ \E r \in PdfAnswers : PdfResponds(r)
    \/ PdfSettled
    \/ handleGenerateClick(FLASH_IMAGE)
    \/ \E r \in LayoutDescribeAnswers : DescribeResponds(r)
    \/ DescribeSettled
    \/ \E r \in LayoutImageAnswers : GenerateResponds(r)
    \/ GenerateSettled
    \/ ResetClick
    \/ TryAgainClick

SpecInput == InitFastModel /\ [][NextInput]_vars

\* the DOI lookup alone, over addresses with every prefix, with none, with two,
\* and with near misses of a prefix
DoiInputs ==
    {p \o t : p \in DoiPrefixes \cup {""}, t \in DoiTails}
        \cup {"HTTPS://DOI.ORG/10.1002/advs.1", "https://www.doi.org/10.1002/advs.1",
               "doi:10.1002/advs.1"}

NextDoi ==
    \/ \E t \in Tabs : setActiveTab(t)
    \/ \E v \in DoiInputs : setDoi(v)
    \/ handleDoiFetch
    \/ \E r \in DoiAnswers : DoiResponds(r)
    \/ DoiSettled

SpecDoi == InitFastModel /\ [][NextDoi]_vars

\* the form's record merged into the cover's text; the session is driven by a
\* failing describe call, after which the editor is rendered
NextMerge ==
    \/ \E t \in {"text", "doi"} : setActiveTab(t)
    \/ setTitle("Coatings")
    \/ setContent("An abstract")
    \/ \E v \in {"", "T. Zhang"} : setAuthors(v)
    \/ \E v \in {"", "Small"} : setJournalName(v)
    \/ \E v \in {"", "10.1002/advs.1"} : setDoi(v)
    \/ handleGenerateClick(FLASH_IMAGE)
    \/ DescribeResponds(Throw("Network error"))
    \/ DescribeSettled
    \/ handleMetadataChange("authors", "L. Yin")
    \/ handleMetadataChange("date", "JANUARY 2026")

SpecMerge == InitFastModel /\ [][NextMerge]_vars

\* the file import beside a generation; the reader's callback, the extraction
\* request's answer and the continuation after it are taken under weak
\* fairness: a read ends in onload or onerror and the backend call settles
FileImportSettles ==
    \/ \E x \in FileResults : FileReaderLoads(x)
    \/ FileReaderFails
    \/ \E r \in PdfAnswers : PdfResponds(r)
    \/ PdfSettled

NextImport ==
    \/ \E t \in Tabs : setActiveTab(t)
    \/ \E f \in Files : handleFileUpload(f)
    \/ FileImportSettles
    \/ handleGenerateClick(FLASH_IMAGE)
    \/ \E r \in LayoutDescribeAnswers : DescribeResponds(r)
    \/ DescribeSettled
    \/ \E r \in LayoutImageAnswers : GenerateResponds(r)
    \/ GenerateSettled
    \/ ResetClick
    \/ TryAgainClick

SpecImport == InitFastModel /\ [][NextImport]_vars /\ WF_vars(FileImportSettles)

\* the pipeline alone, with both models and every kind of answer; each await of
\* handleGenerate and handleRefine (the backend calls and the host's two
\* selector calls) is a promise that settles: the step that answers it and the
\* continuation that the event loop then runs are taken under weak fairness
AwaitSettles ==
    \/ \E r \in DescribeAnswers : DescribeResponds(r)
    \/ DescribeSettled
    \/ \E r \in ImageAnswers : GenerateResponds(r)
    \/ GenerateHasSelectedApiKey
    \/ \E picked \in BOOLEAN : GenerateOpenSelectKey(picked)
    \/ GenerateSettled
    \/ \E r \in ImageAnswers : RefineResponds(r)
    \/ RefineHasSelectedApiKey
    \/ \E picked \in BOOLEAN : RefineOpenSelectKey(picked)
    \/ RefineSettled

NextPipeline ==
    \/ setTitle("Coatings")
    \/ setContent("An abstract")
    \/ \E m \in Models : handleGenerateClick(m)
    \/ AwaitSettles
    \/ RefineEnterKey("darker")
    \/ ResetClick
    \/ TryAgainClick

SpecPipeline == Init /\ [][NextPipeline]_vars /\ WF_vars(AwaitSettles)

-----------------------------------------------------------------------------
(* Auxiliary predicates of the properties *)

\* an image answer that carries an inline image part in its first candidate
HasInlineImage(resp) ==
    /\ resp.kind = "ok"
    /\ "candidates" \in DOMAIN resp
    /\ Len(resp.candidates) > 0
    /\ "parts" \in DOMAIN resp.candidates[1].content
    /\ \E i \in 1..Len(resp.candidates[1].content.parts) :
          "inlineData" \in DOMAIN resp.candidates[1].content.parts[i]

\* the messages a failed refinement can leave in errorMessage
RefineFailureMessages ==
    {RefineErrorPrefix \o m :
        m \in ErrorTexts \cup {NoImageRefineMessage, TypeErrorMessage, ApiKeyMissingMessage}}

\* the operations in flight
InFlight ==
    {op \in {"generation", "refinement", "export"} :
        \/ op = "generation" /\ genCall.pc # "none"
        \/ op = "refinement" /\ refineCall.pc # "none"
        \/ op = "export" /\ exportCall.pc # "none"}

TypeOK ==
    /\ status \in Statuses
    /\ mode \in Modes
    /\ isExporting \in BOOLEAN
    /\ isExporting <=> exportCall.pc # "none"
    /\ genCall.pc \in {"none", "describe", "generate"}
    /\ refineCall.pc \in {"none", "refine"}
    /\ exportCall.pc \in {"none", "timeout", "capture"}
    /\ draggingKey \in LayoutKeys \cup {null}
    /\ (draggingKey = null) <=> (dragStartRef = nullObj)

\* a Crossref answer from which fetchDoiMetadata builds a record
DoiFound(resp) ==
    /\ resp.kind = "http"
    /\ resp.ok
    /\ "json" \in DOMAIN resp
    /\ "message" \in DOMAIN resp.json

\* where an activation stands in generateCoverImage (pc "generate") or in
\* refineCoverImage (pc "refine")
StageOf(call, pc) == IF call.pc = pc THEN call.stage ELSE "none"

\* one step of the credential check, from activation c to activation d
CredentialCheckStep(c, d, pc) ==
    LET before == StageOf(c, pc)
        after == StageOf(d, pc)
    IN  /\ (before = "none" /\ after # "none")
             => after = (IF ~apiKey THEN "client"
                         ELSE IF d.config.model = PRO_IMAGE /\ aistudio # nullObj
                              THEN "hasSelectedApiKey"
                              ELSE "request")
        /\ (before = "hasSelectedApiKey" /\ after # before)
             => after = (IF aistudio.hasKey THEN "request" ELSE "openSelectKey")
        /\ (after = "openSelectKey" /\ before # after)
             => /\ before = "hasSelectedApiKey"
                /\ c.config.model = PRO_IMAGE
                /\ aistudio # nullObj
                /\ ~aistudio.hasKey
        /\ (before = "openSelectKey" /\ after # before) => after = "request"
        /\ (before # "none" /\ after # "none" /\ d.resp # c.resp) => before = "request"

-----------------------------------------------------------------------------
(* Properties *)

\* C1: after any sequence of drag-start, pointer-move and pointer-release
\* events, x and y of every layout group lie in [-10, 100].
C1_PositionClamp ==
    \A k \in LayoutKeys :
        /\ -10 <= layout[k].x /\ layout[k].x <= 100
        /\ -10 <= layout[k].y /\ layout[k].y <= 100

\* C2 as stated: generatedImage is non-null only when status is completed or
\* refining.
C2_ImageOnlyCompletedOrRefining ==
    generatedImage # null => status \in {"completed", "refining"}

\* C2 amended: generatedImage is null whenever status is analyzing or
\* generating; with status error it is non-null only after a failed refinement,
\* and with status idle only when the retry from such an error led there.
C2_ImageStatus ==
    /\ status \in {"analyzing", "generating"} => generatedImage = null
    /\ (status \in {"idle", "error"} /\ generatedImage # null)
          => errorMessage \in RefineFailureMessages

C2_Witness == status = "error" /\ generatedImage # null

\* C3: at every moment at most one of generation, refinement and export is in
\* flight.
C3_MutualExclusion == Cardinality(InFlight) <= 1

\* C4: a generation or a refinement starts only from status idle or
\* completed, and from status error the only next status is idle.
C4_StatusGating ==
    [][/\ (status' \in {"analyzing", "refining"} /\ status' # status)
            => status \in {"idle", "completed"}
       /\ (status = "error" /\ status' # status) => status' = "idle"]_vars

\* C5: a refinement that fails ends with status error and leaves the image it
\* started from, the prompt, the record and the config as they were.
C5_RefineFailurePreservesImage ==
    [][(/\ refineCall.pc = "refine"
        /\ refineCall.resp # Pending
        /\ ~HasInlineImage(refineCall.resp)
        /\ refineCall' # refineCall)
          => /\ status' = "error"
             /\ generatedImage' = refineCall.currentImageBase64
             /\ generatedImage' # null
             /\ UNCHANGED <<generatedPrompt, currentData, currentConfig>>]_vars

C5_Witness ==
    /\ status = "error"
    /\ generatedImage \in {DataUrlPrefix \o d : d \in Payloads}
    /\ errorMessage = RefineErrorPrefix \o NoImageRefineMessage

\* C6: every step that brings status to idle leaves generatedImage,
\* generatedPrompt, currentRecord and currentConfig all null.
C6_IdleIsFullReset ==
    [][(status' = "idle" /\ status # "idle")
          => /\ generatedImage' = null
             /\ generatedPrompt' = null
             /\ currentData' = nullObj
             /\ currentConfig' = nullObj]_vars

\* C7: generateCoverImage is called only by the continuation of a describe
\* call that returned, with exactly the prompt that call returned (the backend
\* text, or the fallback); status generating is entered only from analyzing.
C7_PipelineOrdering ==
    [][/\ (genCall'.pc = "generate" /\ genCall.pc # "generate")
            => /\ genCall.pc = "describe"
               /\ genCall.resp.kind = "ok"
               /\ genCall'.visualPrompt =
                     (IF "text" \in DOMAIN genCall.resp /\ genCall.resp.text # ""
                      THEN genCall.resp.text ELSE FallbackDescription)
               /\ generatedPrompt' = genCall'.visualPrompt
       /\ (status' = "generating" /\ status # "generating")
            => /\ status = "analyzing"
               /\ genCall'.pc = "generate"]_vars

C7_Witness ==
    /\ status = "generating"
    /\ genCall.pc = "generate"
    /\ genCall.visualPrompt = FallbackDescription

\* C8: when handleDownloadPdf finishes, by the try or by the catch, the mode is
\* the mode it was called in and isExporting is false again.
C8_ExportRestoresMode ==
    [][/\ (exportCall.pc = "none" /\ exportCall'.pc # "none")
            => exportCall'.prevMode = mode
       /\ (exportCall.pc # "none" /\ exportCall'.pc # "none")
            => exportCall'.prevMode = exportCall.prevMode
       /\ (exportCall.pc # "none" /\ exportCall'.pc = "none")
            => /\ mode' = exportCall.prevMode
               /\ isExporting' = FALSE]_vars

C8_Witness ==
    /\ exportOutcome = "alert"
    /\ exportCall.pc = "none"
    /\ mode = "layout"
    /\ ~isExporting

\* C9: at the moment the canvas is rasterized the mode is edit and no field
\* holds the focus highlight.
C9_CapturePrecondition ==
    [][(exportCall.pc = "timeout" /\ exportCall'.pc = "capture")
          => (mode = "edit" /\ activeField = null)]_vars

\* C10: a generation cycle whose describe or generate stage fails ends with
\* status error, a non-empty errorMessage and generatedImage null.
C10_GenerationFailure ==
    [][(/\ genCall.pc \in {"describe", "generate"}
        /\ genCall.resp # Pending
        /\ genCall' # genCall
        /\ \/ genCall.resp.kind = "throw"
           \/ genCall.pc = "generate" /\ ~HasInlineImage(genCall.resp))
          => /\ status' = "error"
             /\ errorMessage' \notin {null, ""}
             /\ generatedImage' = null
             /\ genCall' = NoCall]_vars

C10_Witness ==
    /\ status = "error"
    /\ errorMessage = NoImageMessage
    /\ generatedImage = null
    /\ generatedPrompt # null

\* C11: while the form's title or content is empty no generation starts and no
\* backend call is issued; the click that is rejected puts the validation
\* message in the input error and leaves status, image, prompt, record, config
\* and the cover's text as they were.
C11_LocalValidation ==
    [][/\ (title = "" \/ content = "")
            => /\ ~(status' = "analyzing" /\ status # "analyzing")
               /\ ~(genCall.pc = "none" /\ genCall'.pc # "none")
       /\ (error' = ValidationMessage /\ error # ValidationMessage)
            => /\ title = "" \/ content = ""
               /\ UNCHANGED <<sessionVars, metadata>>]_vars

C11_Witness ==
    /\ error = ValidationMessage
    /\ title # ""
    /\ content = ""
    /\ status = "completed"
    /\ generatedImage # null

\* C12: for every field, every base index b in 0..14 and every offset the
\* font-size buttons can reach, getResponsiveSize uses index b + offset cut
\* to 0..14, which is an index of the 15-step scale.
C12_FontIndex ==
    \A f \in CoverFields : \A b \in 0..14 :
        LET o == IF f \in DOMAIN fontOffsets THEN fontOffsets[f] ELSE 0
            i == getResponsiveIndex(b, f)
        IN  /\ i \in 0..14
            /\ i + 1 \in DOMAIN FONT_SIZES
            /\ b + o < 0 => i = 0
            /\ b + o > 14 => i = 14
            /\ b + o \in 0..14 => i = b + o
            /\ getResponsiveSize(b, f) = FONT_SIZES[i + 1]

C12_Witness ==
    /\ BaseIndex("journalName") + FontOffset(fontOffsets, "journalName") > 14
    /\ BaseIndex("date") + FontOffset(fontOffsets, "date") < 0
    /\ "title" \notin DOMAIN fontOffsets

\* C13: a font-size action changes the offset of the focused field by exactly
\* one and no other offset; without a focused field no offset changes; a
\* change of focus leaves every offset as it was.
C13_OffsetIndependence ==
    [][/\ fontOffsets' # fontOffsets
            => /\ activeField # null
               /\ activeField' = activeField
               /\ \E d \in {-1, 1} :
                     FontOffset(fontOffsets', activeField)
                        = FontOffset(fontOffsets, activeField) + d
               /\ \A g \in CoverFields \ {activeField} :
                     FontOffset(fontOffsets', g) = FontOffset(fontOffsets, g)
       /\ activeField' # activeField => fontOffsets' = fontOffsets]_vars

C13_Witness ==
    /\ activeField = "date"
    /\ FontOffset(fontOffsets, "journalName") = 2
    /\ FontOffset(fontOffsets, "date") = -1

\* C14: when a generation hands a new record R to the editor whose text is M,
\* the text becomes M with title, authors and doi replaced by R's where R's
\* are non-empty and journalName replaced by R's in upper case where non-empty;
\* date, volumeInfo, website, tag and footer stay M's.
C14_MergeInvariant ==
    [][(status' = "analyzing" /\ status # "analyzing")
          => /\ \A f \in {"date", "volumeInfo", "website", "tag", "footer"} :
                   metadata'[f] = metadata[f]
             /\ \A f \in {"title", "authors", "doi"} :
                   metadata'[f] = (IF currentData'[f] # "" THEN currentData'[f]
                                  ELSE metadata[f])
             /\ currentData'.journalName = "" => metadata'.journalName = metadata.journalName
             /\ currentData'.journalName = "Small" => metadata'.journalName = "SMALL"
             /\ currentData'.journalName = "NATURE" => metadata'.journalName = "NATURE"]_vars

C14_Witness ==
    /\ status = "analyzing"
    /\ currentData.journalName = "Small"
    /\ currentData.authors = ""
    /\ currentData.doi = "10.1002/advs.1"
    /\ metadata = [InitialMetadata EXCEPT !.journalName = "SMALL", !.title = "Coatings",
                                          !.authors = "L. Yin", !.date = "JANUARY 2026",
                                          !.doi = "10.1002/advs.1"]

\* C15: the layout changes only in a step taken with mode layout and a drag
\* in progress; no position changes while the mode is edit, also when the
\* mode was switched, or an export forced it to edit, during a drag.
C15_LayoutOnlyInLayoutMode ==
    [][layout' # layout => (mode = "layout" /\ draggingKey # null)]_vars

\* C16: no step of the session (a change of status, image, prompt, record,
\* config or error message, or of a call in flight) changes a position.
C16_LayoutPersistence ==
    [][sessionVars' # sessionVars => layout' = layout]_vars

C16_Witness ==
    /\ layout # InitialLayout
    /\ status = "idle"
    /\ currentData = nullObj
    /\ generatedImage = null

\* C17: no step of the DOI lookup or of the file import changes status, image,
\* prompt, record or config; a DOI lookup that succeeds leaves status as it is
\* (idle when it was idle), fills the form's title and content and shows the
\* text tab; one that fails sets the inline input error and leaves the form
\* and the tab as they were.
C17_ResolversLeaveSession ==
    [][/\ (doiCall' # doiCall \/ fileCall' # fileCall
            \/ doiLoading' # doiLoading \/ fileLoading' # fileLoading)
            => UNCHANGED <<status, generatedImage, generatedPrompt, currentData,
                           currentConfig, errorMessage, genCall, refineCall>>
       /\ (doiCall.pc = "fetch" /\ doiCall'.pc = "none" /\ DoiFound(doiCall.resp))
            => /\ status' = status
               /\ title' \in {"Coatings", UntitledTitle}
               /\ content' \in {"An abstract", NoAbstractMessage}
               /\ activeTab' = "text"
               /\ ~doiLoading'
               /\ error' = error
       /\ (doiCall.pc = "fetch" /\ doiCall'.pc = "none" /\ ~DoiFound(doiCall.resp))
            => /\ error' = DoiFailMessage
               /\ ~doiLoading'
               /\ UNCHANGED <<activeTab, title, content, authors, journalName, doi>>]_vars

C17_Witness ==
    /\ status = "idle"
    /\ doiCall = NoCall
    /\ activeTab = "text"
    /\ title = "Coatings"
    /\ content = "An abstract"
    /\ authors = "Tao Zhang, Ling Yin"
    /\ journalName = "ADVANCED SCIENCE"
    /\ doi = "https://doi.org/10.1002/advs.1"
    /\ ~doiLoading

\* C18: a describe answer whose text is empty or missing makes
\* generateVisualDescription return the fixed generic description, which is
\* not empty, and the cycle goes on to the generate stage with it; the describe
\* stage ends in error only when getAiClient or the backend call threw.
C18_DescribeFallback ==
    [][(genCall.pc = "describe" /\ genCall.resp # Pending /\ genCall' # genCall)
          => /\ (genCall.resp.kind = "ok"
                    /\ ("text" \notin DOMAIN genCall.resp \/ genCall.resp.text = ""))
                  => /\ status' = "generating"
                     /\ generatedPrompt' = "A scientific abstract representation."
                     /\ genCall'.pc = "generate"
                     /\ genCall'.visualPrompt = generatedPrompt'
             /\ status' = "error" => genCall.resp.kind = "throw"
             /\ status' \in {"generating", "error"}]_vars

C18_Witness ==
    /\ status = "completed"
    /\ generatedPrompt = FallbackDescription
    /\ generatedImage # null
    /\ genCall = NoCall

\* C19: generateCoverImage and refineCoverImage ask the host whether a key is
\* selected exactly when the model is the pro model and window.aistudio
\* exists, and open the selector exactly when the host then reports none; the
\* backend answers only a request sent after that; with the fast model or
\* without window.aistudio the request is sent at once.
C19_CredentialSelection ==
    [][/\ CredentialCheckStep(genCall, genCall', "generate")
       /\ CredentialCheckStep(refineCall, refineCall', "refine")]_vars

C19_Witness ==
    /\ refineCall.pc = "refine"
    /\ refineCall.stage = "request"
    /\ refineCall.resp.kind = "ok"
    /\ refineCall.config.model = PRO_IMAGE
    /\ aistudio = [hasKey |-> FALSE]

\* C20 as stated: without an API key no backend call of any kind gets as far
\* as a request (the DOI lookup included), every call is rejected with the
\* key-missing error, and a generation never reaches status generating.
C20_NoKeyBlocksAllCalls ==
    ~apiKey
      => /\ doiCall.pc = "none"
         /\ fileCall.pc # "extract"
         /\ refineCall.pc = "none"
         /\ genCall.pc # "none" => genCall.resp = Throw(ApiKeyMissingMessage)
         /\ status # "generating"

\* C20 amended: without an API key every call to the generative backend
\* (describe, generate, refine, PDF extraction) is rejected by getAiClient with
\* the key-missing error before a request is sent, and a generation goes from
\* analyzing to error with that message, never to generating; the DOI lookup
\* asks Crossref, takes no key, and is sent and answered as with a key.
C20_NoKeyBlocksGenerativeCalls ==
    ~apiKey
      => /\ fileCall.pc # "extract"
         /\ refineCall.pc = "none"
         /\ genCall.pc # "none"
              => (genCall.pc = "describe" /\ genCall.resp = Throw(ApiKeyMissingMessage))
         /\ status \in {"idle", "analyzing", "error"}
         /\ status = "error" => errorMessage = ApiKeyMissingMessage
         /\ generatedImage = null
         /\ generatedPrompt = null

C20_Witness ==
    /\ ~apiKey
    /\ status = "error"
    /\ errorMessage = ApiKeyMissingMessage
    /\ error = PdfFailMessage
    /\ doiCall.pc = "fetch"
    /\ DoiFound(doiCall.resp)

\* C21: fetchDoiMetadata fails with the one error message on every answer
\* that is not a success (the fetch rejects, the status is not ok, the body
\* does not parse to a message); a success without abstract is no failure and
\* yields the placeholder content; the record's doi is the normalized DOI.
C21_DoiFailureContract ==
    (doiCall.pc = "fetch" /\ doiCall.resp # Pending)
      => LET r == fetchDoiMetadata(doiCall.doi, doiCall.resp)
         IN  /\ ~DoiFound(doiCall.resp)
                  => r = [kind |-> "throw",
                          message |-> "Could not fetch DOI data. Please enter text manually."]
             /\ DoiFound(doiCall.resp)
                  => /\ r.kind = "return"
                     /\ r.value.doi = doiCall.cleanDoi
                     /\ \A p \in DoiPrefixes \cup {""}, x \in BareDois :
                           doiCall.doi = p \o x => r.value.doi = x
                     /\ "abstract" \notin DOMAIN doiCall.resp.json.message
                           => r.value.content
                                 = "No abstract available via DOI. Please paste content manually."

C21_Witness ==
    /\ doiCall.pc = "fetch"
    /\ doiCall.doi = "http://dx.doi.org/10.1002/advs.1"
    /\ doiCall.resp = JsonResponse([message |-> CrossrefItemBare])

\* C22: for every identifier X, the address X itself and X behind doi.org/ or
\* dx.doi.org/, with http://, https:// or no scheme, normalize to exactly X;
\* whatever the input, the result is the input without at most one leading
\* resolver prefix.
C22_DoiNormalization ==
    doiCall.pc = "fetch"
      => /\ \A x \in BareDois :
               \A p \in {"", "doi.org/", "dx.doi.org/", "http://doi.org/", "https://doi.org/",
                          "http://dx.doi.org/", "https://dx.doi.org/"} :
                  doiCall.doi = p \o x => doiCall.cleanDoi = x
         /\ \E p \in {"", "doi.org/", "dx.doi.org/", "http://doi.org/", "https://doi.org/",
                        "http://dx.doi.org/", "https://dx.doi.org/"} :
               doiCall.doi = p \o doiCall.cleanDoi

C22_Witness ==
    /\ doiCall.pc = "fetch"
    /\ doiCall.doi = "https://dx.doi.org/10.1002/advs.1"
    /\ doiCall.cleanDoi = "10.1002/advs.1"

\* C23: one group at most is being dragged (draggingKey and dragStartRef are
\* set and cleared together); a step that changes a position is taken during
\* a drag, keeps the drag, and changes only the position of the dragged
\* group; a release is possible whenever a drag is in progress, and the step
\* that clears draggingKey clears dragStartRef too, so that no later pointer
\* move changes a position until a new drag starts.
C23_DragProtocol ==
    /\ [](/\ draggingKey \in LayoutKeys \cup {null}
          /\ (draggingKey = null) <=> (dragStartRef = nullObj)
          /\ draggingKey # null => ENABLED handleMouseUp)
    /\ [][(layout' # layout
              => /\ draggingKey # null
                 /\ draggingKey' = draggingKey
                 /\ \A k \in LayoutKeys \ {draggingKey} : layout'[k] = layout[k])
          /\ ((draggingKey # null /\ draggingKey' = null) => dragStartRef' = nullObj)]_vars

C23_Witness ==
    /\ draggingKey = null
    /\ dragStartRef = nullObj
    /\ layout.tag # InitialLayout.tag
    /\ \A k \in LayoutKeys \ {"tag"} : layout[k] = InitialLayout[k]

\* C24: in every state, an image comes with its prompt, record and config;
\* status completed has an image; status analyzing or generating has none;
\* status generating has a prompt; and errorMessage is null while status is
\* analyzing, generating or refining.
C24_SessionConsistency ==
    /\ generatedImage # null
          => (generatedPrompt # null /\ currentData # nullObj /\ currentConfig # nullObj)
    /\ status = "completed" => generatedImage # null
    /\ status \in {"analyzing", "generating"} => generatedImage = null
    /\ status = "generating" => generatedPrompt # null
    /\ status \in {"analyzing", "generating", "refining"} => errorMessage = null

\* a refinement in flight on an image that an earlier generation produced
C24_Witness ==
    /\ status = "refining"
    /\ refineCall # NoCall
    /\ generatedImage # null
    /\ generatedPrompt # null
    /\ currentData # nullObj
    /\ errorMessage = null

C26_FileLoadingReleased == fileLoading ~> ~fileLoading

\* C27: a click on a 'Text Size' button with a field focused moves that
\* field's effective index by exactly one step in the button's direction
\* whenever the index is not already at that end of the scale: a decrease
\* from an index above 0 gives the index minus one, an increase from an index
\* below 14 gives the index plus one.
C27_SizeActionEffective ==
    [][\A f \in CoverFields :
          (activeField = f /\ fontOffsets' # fontOffsets)
             => LET before == getResponsiveIndex(BaseIndex(f), f)
                    after == getResponsiveIndex(BaseIndex(f), f)'
                    delta == FontOffset(fontOffsets', f) - FontOffset(fontOffsets, f)
                IN  /\ (delta = -1 /\ before > 0) => after = before - 1
                    /\ (delta = 1 /\ before < Len(FONT_SIZES) - 1) => after = before + 1]_vars

====
